---- MODULE Spec2Model ----
(***************************************************************************)
(* A model of autobrunodoc.py: extraction of documentation text from an    *)
(* OpenAPI document, injection of that text into Bruno .bru files with a   *)
(* .bak backup, and the revert of .bru files from their backups.           *)
(*                                                                         *)
(* Text is modelled by TLA+ strings; a character is a string of length 1.  *)
(***************************************************************************)
EXTENDS Integers, Sequences, FiniteSets, TLC

VARIABLES
    \* one collection file under repeated injection
    file_now,       \* the content of the file
    doc_text,       \* the documentation text of the last injection
    file_before,    \* the content of the file before the last injection
    n_inject        \* the number of injections so far

VARIABLES
    \* the extraction of the documentation
    openapi_data,   \* the loaded OpenAPI document
    cursor,         \* the number of (path, key) items the loops have visited
    path_docs,      \* the dict under construction, in insertion order
    warnings        \* the warnings printed so far

VARIABLES
    \* the workspace and the commands run on it
    bruno_dir,      \* the path of the collection directory
    dirs,           \* the directories that exist
    fs,             \* the files that exist: path -> content
    unreadable,     \* the files no open(path, 'r') succeeds on
    readonly,       \* the files no open(path, 'w') succeeds on
    pc,             \* "idle", or "doc" inside the loop of update_bruno_files
    log,            \* what the loop did for each entry of path_docs so far
    pre,            \* the files at the start of the last doc command
    before,         \* the files at the start of the last revert command
    reverted_count, \* what the last revert command returned
    history         \* the commands that ended, oldest first

injectVars == <<file_now, doc_text, file_before, n_inject>>
extractVars == <<openapi_data, cursor, path_docs, warnings>>
workVars == <<bruno_dir, dirs, fs, unreadable, readonly, pc, log, pre, before,
              reverted_count, history>>
vars == <<injectVars, extractVars, workVars>>

(***************************************************************************)
(* Bounds of the model.                                                    *)
(***************************************************************************)
\* the longest list of (key, value) items of a generated path item
MaxItems == 2
\* the number of commands (doc, revert) of one session
MaxRuns == 3
\* the number of pieces a generated collection file is built from
MaxPieces == 3
\* the number of operations matched to one collection file
MaxInject == 2

(***************************************************************************)
(* Strings, as Python's str methods compute them.                          *)
(***************************************************************************)
CharAt(s, i) == SubSeq(s, i, i)

NL == "\n"

\* the characters \s and str.strip() take for white space (ASCII subset)
IsSpace(c) == c \in {" ", NL, "\t"}

LowerChars == "abcdefghijklmnopqrstuvwxyz"
UpperChars == "ABCDEFGHIJKLMNOPQRSTUVWXYZ"
DigitChars == "0123456789"

RECURSIVE IndexIn(_, _, _)
\* the least index >= i at which character c stands in s, or 0
IndexIn(c, s, i) ==
    IF i > Len(s) THEN 0
    ELSE IF CharAt(s, i) = c THEN i
    ELSE IndexIn(c, s, i + 1)

LowerChar(c) ==
    LET k == IndexIn(c, UpperChars, 1)
    IN  IF k = 0 THEN c ELSE CharAt(LowerChars, k)

UpperChar(c) ==
    LET k == IndexIn(c, LowerChars, 1)
    IN  IF k = 0 THEN c ELSE CharAt(UpperChars, k)

RECURSIVE lower(_)
lower(s) == IF s = "" THEN "" ELSE LowerChar(Head(s)) \o lower(Tail(s))

RECURSIVE upper(_)
upper(s) == IF s = "" THEN "" ELSE UpperChar(Head(s)) \o upper(Tail(s))

StartsAt(s, i, t) ==
    /\ i >= 1
    /\ i + Len(t) - 1 <= Len(s)
    /\ SubSeq(s, i, i + Len(t) - 1) = t

endswith(s, t) == Len(t) <= Len(s) /\ StartsAt(s, Len(s) - Len(t) + 1, t)

RECURSIVE find(_, _, _)
\* str.find: the least index >= i at which t occurs in s, or 0
find(s, t, i) ==
    IF i + Len(t) - 1 > Len(s) THEN 0
    ELSE IF StartsAt(s, i, t) THEN i
    ELSE find(s, t, i + 1)

\* Python's  t in s
contains(s, t) == find(s, t, 1) # 0

RECURSIVE ReplaceFrom(_, _, _, _)
ReplaceFrom(s, old, new, i) ==
    LET k == find(s, old, i)
    IN  IF k = 0 THEN SubSeq(s, i, Len(s))
        ELSE SubSeq(s, i, k - 1) \o new \o ReplaceFrom(s, old, new, k + Len(old))

\* str.replace(old, new) with no count: every non-overlapping occurrence,
\* left to right (old is never empty here)
replace(s, old, new) == ReplaceFrom(s, old, new, 1)

RECURSIVE lstrip(_)
lstrip(s) == IF s # "" /\ IsSpace(Head(s)) THEN lstrip(Tail(s)) ELSE s

RECURSIVE rstrip(_)
rstrip(s) ==
    IF s # "" /\ IsSpace(CharAt(s, Len(s)))
    THEN rstrip(SubSeq(s, 1, Len(s) - 1))
    ELSE s

strip(s) == lstrip(rstrip(s))

RECURSIVE join(_, _)
\* sep.join(parts)
join(sep, parts) ==
    IF parts = <<>> THEN ""
    ELSE IF Len(parts) = 1 THEN parts[1]
    ELSE parts[1] \o sep \o join(sep, Tail(parts))

(***************************************************************************)
(* The patterns  docs\s*{[^{}]*}  and  meta\s*{[^{}]*}  and their search.  *)
(***************************************************************************)
RECURSIVE SkipSpace(_, _)
\* \s* is greedy and "{" is no white space: the run of white space from i
SkipSpace(s, i) ==
    IF i <= Len(s) /\ IsSpace(CharAt(s, i)) THEN SkipSpace(s, i + 1) ELSE i

RECURSIVE SkipNonBrace(_, _)
\* [^{}]* is greedy and "}" is excluded from it: the run of non-braces from i
SkipNonBrace(s, i) ==
    IF i <= Len(s) /\ CharAt(s, i) \notin {"{", "}"}
    THEN SkipNonBrace(s, i + 1)
    ELSE i

\* the index of the last character of the match of  word\s*{[^{}]*}  that
\* starts at i, or 0 when the pattern does not match there
MatchEndAt(word, s, i) ==
    IF ~StartsAt(s, i, word) THEN 0
    ELSE LET j == SkipSpace(s, i + Len(word))
         IN  IF ~StartsAt(s, j, "{") THEN 0
             ELSE LET k == SkipNonBrace(s, j + 1)
                  IN  IF StartsAt(s, k, "}") THEN k ELSE 0

RECURSIVE SearchFrom(_, _, _)
SearchFrom(word, s, i) ==
    IF i > Len(s) THEN <<0, 0>>
    ELSE LET e == MatchEndAt(word, s, i)
         IN  IF e > 0 THEN <<i, e>> ELSE SearchFrom(word, s, i + 1)

\* pattern.search(s): <<first, last>> of the leftmost match, <<0, 0>> for None
docs_pattern(s) == SearchFrom("docs", s, 1)
meta_pattern(s) == SearchFrom("meta", s, 1)

(***************************************************************************)
(* update_bruno_files, lines 215-240: the new content of a collection file *)
(***************************************************************************)
\* a merge that keeps nothing of the existing block (a replacement)
MergedSpanReplacing(existing, docs) == "docs {" \o NL \o docs \o NL \o "}"

\* the merged span that replaces the matched docs span
MergedSpan(existing, docs) ==
    strip(SubSeq(existing, 1, Len(existing) - 1)) \o NL \o NL \o docs \o NL \o "}"

\* the replacement of the matched span in the file content
ReplaceSpan(bru_content, existing, updated_docs) ==
    replace(bru_content, existing, updated_docs)

\* the new docs element of a file that has none
DocsElement(docs) == "docs {" \o NL \o docs \o NL \o "}"

\* an insertion one character early, inside the meta block
InsertInside(bru_content, e, docs_element) ==
    SubSeq(bru_content, 1, e - 1) \o NL \o NL \o docs_element
        \o SubSeq(bru_content, e, Len(bru_content))

\* the insertion of the new docs element after the meta match ending at e
InsertAfter(bru_content, e, docs_element) ==
    SubSeq(bru_content, 1, e) \o NL \o NL \o docs_element
        \o SubSeq(bru_content, e + 1, Len(bru_content))

InjectDocs(bru_content, docs) ==
    LET docs_match == docs_pattern(bru_content)
    IN  IF docs_match[1] # 0
        THEN LET existing == SubSeq(bru_content, docs_match[1], docs_match[2])
             IN  ReplaceSpan(bru_content, existing, MergedSpan(existing, docs))
        ELSE LET meta_match == meta_pattern(bru_content)
             IN  IF meta_match[1] # 0
                 THEN InsertAfter(bru_content, meta_match[2], DocsElement(docs))
                 ELSE DocsElement(docs) \o NL \o NL \o bru_content

(***************************************************************************)
(* extract_openapi_docs.  A dict is a sequence of entries in insertion     *)
(* order: the document's paths <<path, path_item>>, a path item's          *)
(* <<key, value>>, an operation's responses <<status_code, response>>.  An *)
(* operation, a parameter, a response, a content and a schema are records  *)
(* that hold only the keys the document gives them.  yaml.dump is not      *)
(* modelled: the documents of the model give no example in a content.      *)
(***************************************************************************)
Range(f) == { f[x] : x \in DOMAIN f }

HTTP_METHODS ==
    {"get", "post", "put", "delete", "patch", "options", "head", "trace"}

\* d.get(key, default)
Get(d, key, default) == IF key \in DOMAIN d THEN d[key] ELSE default

\* an example value is [int |-> i] or [str |-> s]; str(v) and bool(v)
Str(v) == IF "int" \in DOMAIN v THEN ToString(v.int) ELSE v.str
Truthy(v) == IF "int" \in DOMAIN v THEN v.int # 0 ELSE v.str # ""

RECURSIVE SchemeNames(_)
\* lines 84-87: the scheme names of one security item, then of the next
SchemeNames(security) ==
    IF security = <<>> THEN <<>>
    ELSE [k \in 1..Len(Head(security)) |-> Head(security)[k][1]]
             \o SchemeNames(Tail(security))

\* lines 95-103: the lines of one parameter
ParamLines(param) ==
    LET param_name == Get(param, "name", "")
        param_in == Get(param, "in", "")
        param_required ==
            IF Get(param, "required", FALSE) THEN "required" ELSE "optional"
        param_desc == Get(param, "description", "")
        param_example == Get(param, "example", [str |-> ""])
    IN  <<"  * " \o param_name \o " (" \o param_in \o ", " \o param_required
              \o "): " \o param_desc>>
          \o (IF Truthy(param_example)
              THEN <<NL \o "    Example: " \o Str(param_example)>>
              ELSE <<>>)

RECURSIVE ParamsLines(_)
ParamsLines(params) ==
    IF params = <<>> THEN <<>>
    ELSE ParamLines(Head(params)) \o ParamsLines(Tail(params))

\* lines 117-125: the line of one schema property <<prop_name, prop>>
PropLine(entry) ==
    LET prop == entry[2]
        prop_type == Get(prop, "type", "")
        prop_format == Get(prop, "format", "")
        prop_desc == Get(prop, "description", "")
        type_str == IF prop_format # ""
                    THEN "(" \o prop_type \o ", " \o prop_format \o ")"
                    ELSE "(" \o prop_type \o ")"
    IN  "  * " \o entry[1] \o ": " \o prop_desc \o " " \o type_str

\* lines 112-129: the lines of one content <<content_type, content>>
ContentLines(entry) ==
    LET schema == Get(entry[2], "schema", [x \in {} |-> ""])
    IN  <<"  Content-Type: " \o entry[1]>>
          \o (IF "properties" \in DOMAIN schema
              THEN [k \in 1..Len(schema.properties) |-> PropLine(schema.properties[k])]
                     \o (IF "required" \in DOMAIN schema
                         THEN <<NL \o "  Required body properties: "
                                   \o join(", ", schema.required)>>
                         ELSE <<>>)
              ELSE <<>>)

RECURSIVE ContentsLines(_)
ContentsLines(contents) ==
    IF contents = <<>> THEN <<>>
    ELSE ContentLines(Head(contents)) \o ContentsLines(Tail(contents))

\* lines 142-144: the line of one response <<status_code, response>>
ResponseLine(entry) ==
    "  * " \o entry[1] \o ": " \o Get(entry[2], "description", "")

\* lines 76-163: the list docs of an operation
DocsLines(operation) ==
    (IF "description" \in DOMAIN operation
     THEN <<"Description: " \o operation.description \o NL>>
     ELSE <<>>)
    \o (IF "security" \in DOMAIN operation /\ SchemeNames(operation.security) # <<>>
        THEN <<"Security: " \o join(", ", SchemeNames(operation.security)) \o NL>>
        ELSE <<>>)
    \o (IF "parameters" \in DOMAIN operation
        THEN <<"Parameters:">> \o ParamsLines(operation.parameters) \o <<"">>
        ELSE <<>>)
    \o (IF "requestBody" \in DOMAIN operation
        THEN <<"Body:">>
               \o ContentsLines(Get(operation.requestBody, "content", <<>>))
               \o <<"">>
        ELSE <<>>)
    \o (IF "responses" \in DOMAIN operation
        THEN <<"Responses:">>
               \o [k \in 1..Len(operation.responses) |->
                      ResponseLine(operation.responses[k])]
               \o <<"">>
        ELSE <<>>)

\* line 168: "\n".join(docs)
RenderDocs(operation) == join(NL, DocsLines(operation))

\* path_docs[key] = text: a key the dict holds keeps its place
DictPut(d, key, text) ==
    IF \E k \in 1..Len(d) : d[k].key = key
    THEN [k \in 1..Len(d) |-> IF d[k].key = key THEN [key |-> key, docs |-> text]
                                               ELSE d[k]]
    ELSE Append(d, [key |-> key, docs |-> text])

\* a store under the first tag only
StoreFirstTag(d, tags, method, path, summary, text) ==
    DictPut(d, <<tags[1], upper(method), path, summary>>, text)

RECURSIVE Store(_, _, _, _, _, _)
\* lines 166-168: one entry per tag
Store(d, tags, method, path, summary, text) ==
    IF tags = <<>> THEN d
    ELSE Store(DictPut(d, <<Head(tags), upper(method), path, summary>>, text),
               Tail(tags), method, path, summary, text)

\* line 72
MissingWarning(method, path) ==
    "Warning: Missing tags or summary for " \o upper(method) \o " " \o path

RECURSIVE ItemsOf(_)
\* lines 61-62: the (path, key, value) items in the order the loops visit them
ItemsOf(paths) ==
    IF paths = <<>> THEN <<>>
    ELSE [k \in 1..Len(Head(paths)[2]) |->
             [path |-> Head(paths)[1],
              method |-> Head(paths)[2][k][1],
              operation |-> Head(paths)[2][k][2]]]
           \o ItemsOf(Tail(paths))

Items(data) == ItemsOf(Get(data, "paths", <<>>))

\* line 64
IsMethod(item) == item.method \in HTTP_METHODS

\* lines 68-71
tagsOf(item) == Get(item.operation, "tags", <<>>)
summaryOf(item) == Get(item.operation, "summary", "")
Incomplete(item) == tagsOf(item) = <<>> \/ summaryOf(item) = ""

\* one turn of the inner loop, lines 62-168, on <<path_docs, warnings>>
ExtractItem(state, item) ==
    IF ~IsMethod(item) THEN state
    ELSE IF Incomplete(item)
         THEN <<state[1], Append(state[2], MissingWarning(item.method, item.path))>>
    ELSE <<Store(state[1], tagsOf(item), item.method, item.path, summaryOf(item),
                 RenderDocs(item.operation)),
           state[2]>>

RECURSIVE ExtractFrom(_, _)
ExtractFrom(state, items) ==
    IF items = <<>> THEN state
    ELSE ExtractFrom(ExtractItem(state, Head(items)), Tail(items))

\* the whole function: <<path_docs, warnings>>
extract_openapi_docs(data) == ExtractFrom(<<<<>>, <<>>>>, Items(data))

(***************************************************************************)
(* Paths and the file system.                                              *)
(***************************************************************************)
RECURSIVE LastSlash(_, _)
\* the index of the last "/" of p at or before i, or 0
LastSlash(p, i) ==
    IF i = 0 THEN 0
    ELSE IF CharAt(p, i) = "/" THEN i
    ELSE LastSlash(p, i - 1)

dirname(p) == SubSeq(p, 1, LastSlash(p, Len(p)) - 1)
basename(p) == SubSeq(p, LastSlash(p, Len(p)) + 1, Len(p))

\* os.path.join of a directory and a relative name
path_join(d, name) == d \o "/" \o name

\* os.listdir(d) as a set, files only: no directory of the model lies in a
\* tag directory.  The order of the listing is the file system's.
listdir(files, d) ==
    { basename(p) : p \in { q \in DOMAIN files : dirname(q) = d } }

\* whether shutil.copy2(src, dst) succeeds: src can be opened for reading
\* and dst for writing, in a directory that exists
CanCopy(files, ds, noread, nowrite, src, dst) ==
    /\ src \in DOMAIN files
    /\ src \notin noread
    /\ dst \notin nowrite
    /\ dirname(dst) \in ds

\* the files after  path  is written with  content
WriteFile(files, path, content) ==
    [q \in DOMAIN files \cup {path} |-> IF q = path THEN content ELSE files[q]]

(***************************************************************************)
(* update_bruno_files, lines 180-209: the file and the backup of an entry  *)
(***************************************************************************)
RECURSIVE Sanitize(_)
\* line 189: re.sub(r'[^a-zA-Z0-9 ]', '', summary)
Sanitize(summary) ==
    IF summary = "" THEN ""
    ELSE LET c == Head(summary)
         IN  (IF \/ IndexIn(c, LowerChars, 1) # 0
                 \/ IndexIn(c, UpperChars, 1) # 0
                 \/ IndexIn(c, DigitChars, 1) # 0
                 \/ c = " "
              THEN c ELSE "") \o Sanitize(Tail(summary))

safe_summary(summary) == strip(Sanitize(summary))

\* lines 190-196: the .bru files of tag_dir whose name holds the summary.
\* matching_files[0] is the one of them the listing puts first: any of them.
matching_files(files, tag_dir, summary) ==
    { f \in listdir(files, tag_dir) :
        /\ endswith(f, ".bru")
        /\ contains(lower(f), lower(safe_summary(summary))) }

\* line 208
backup_path(bru_file_path) == replace(bru_file_path, ".bru", ".bak")

(***************************************************************************)
(* revert_bruno_files                                                      *)
(***************************************************************************)
\* line 276
bru_of(bak_file) == replace(bak_file, ".bak", ".bru")

\* a restore that moves the backup instead of copying it
RestoreMoving(files, bak_path, bru_path) ==
    [q \in DOMAIN files \ {bak_path} |->
        IF q = bru_path THEN files[bak_path] ELSE files[q]]

\* line 283: shutil.copy2(bak_path, bru_path) when it succeeds
Restore(files, bak_path, bru_path) == WriteFile(files, bru_path, files[bak_path])

\* lines 273-289 for one backup file, on <<files, reverted_count>>
RevertOne(state, ds, noread, nowrite, bak_path) ==
    LET bru_path == path_join(dirname(bak_path), bru_of(basename(bak_path)))
    IN  IF /\ bru_path \in DOMAIN state[1]
           /\ CanCopy(state[1], ds, noread, nowrite, bak_path, bru_path)
        THEN <<Restore(state[1], bak_path, bru_path), state[2] + 1>>
        ELSE state

RECURSIVE RevertAll(_, _, _, _, _)
RevertAll(state, ds, noread, nowrite, bak_paths) ==
    IF bak_paths = <<>> THEN state
    ELSE RevertAll(RevertOne(state, ds, noread, nowrite, Head(bak_paths)),
                   ds, noread, nowrite, Tail(bak_paths))

RECURSIVE WalkOrder(_)
\* the order in which os.walk comes to a set of files: not specified, and the
\* same whenever the same files are walked
WalkOrder(paths) ==
    IF paths = {} THEN <<>>
    ELSE LET p == CHOOSE q \in paths : TRUE
         IN  <<p>> \o WalkOrder(paths \ {p})

\* lines 269-271: the .bak files os.walk finds under root, in walk order
bak_files(files, root) ==
    WalkOrder({ p \in DOMAIN files :
                  StartsAt(p, 1, root \o "/") /\ endswith(basename(p), ".bak") })

\* the whole function: <<files, reverted_count>>
revert_bruno_files(files, ds, noread, nowrite, root) ==
    RevertAll(<<files, 0>>, ds, noread, nowrite, bak_files(files, root))

(***************************************************************************)
(* The extraction, one (path, key) item a step, over generated documents.  *)
(***************************************************************************)
IdParam ==
    [name |-> "id", in |-> "path", required |-> TRUE,
     description |-> "User ID", example |-> [int |-> 123]]

OkResponses == << <<"200", [description |-> "OK"]>> >>

Operations ==
    { [tags |-> <<"Users">>, summary |-> "Get User", responses |-> OkResponses],
      [tags |-> <<"Users", "Admin">>, summary |-> "Get User",
       description |-> "d", parameters |-> <<IdParam>>],
      [tags |-> <<"Admin", "Admin">>, summary |-> "Get"],
      [summary |-> "Get User"],
      [tags |-> <<>>, summary |-> "Get User"],
      [tags |-> <<"Users">>],
      [tags |-> <<"Users">>, summary |-> ""] }

ItemChoices ==
    { <<m, o>> : m \in {"get", "post"}, o \in Operations }
      \cup { <<"parameters", <<IdParam>> >>,
             <<"GET", [tags |-> <<"Users">>, summary |-> "Get User"]>> }

\* a YAML mapping holds a key once
PathItems ==
    { pi \in UNION { [1..k -> ItemChoices] : k \in 0..MaxItems } :
        \A i, j \in DOMAIN pi : i # j => pi[i][1] # pi[j][1] }

PetsPath ==
    <<"/pets", << <<"get", [tags |-> <<"Pets", "Users">>, summary |-> "List"]>> >> >>

GeneratedDocuments ==
    { [openapi |-> "3.0.0", paths |-> << <<"/users/{id}", pi>> >>] : pi \in PathItems }
      \cup { [openapi |-> "3.0.0", paths |-> << <<"/users/{id}", pi>>, PetsPath >>] :
               pi \in PathItems }
      \cup { [openapi |-> "3.0.0"] }

InjectIdle ==
    /\ file_now = ""
    /\ doc_text = ""
    /\ file_before = ""
    /\ n_inject = 0

WorkIdle ==
    /\ bruno_dir = "ws"
    /\ dirs = {"ws"}
    /\ fs = [q \in {} |-> ""]
    /\ unreadable = {}
    /\ readonly = {}
    /\ pc = "idle"
    /\ log = <<>>
    /\ pre = [q \in {} |-> ""]
    /\ before = [q \in {} |-> ""]
    /\ reverted_count = 0
    /\ history = <<>>

ExtractInit ==
    /\ openapi_data \in GeneratedDocuments
    /\ cursor = 0
    /\ path_docs = <<>>
    /\ warnings = <<>>
    /\ InjectIdle
    /\ WorkIdle

NextItem == Items(openapi_data)[cursor + 1]

More == cursor < Len(Items(openapi_data))

Visit ==
    /\ cursor' = cursor + 1
    /\ path_docs' = ExtractItem(<<path_docs, warnings>>, NextItem)[1]
    /\ warnings' = ExtractItem(<<path_docs, warnings>>, NextItem)[2]
    /\ UNCHANGED <<openapi_data, injectVars, workVars>>

\* lines 64-65: a key that is no HTTP method
SkipKey == More /\ ~IsMethod(NextItem) /\ Visit

\* lines 71-73: an operation without tags or without a summary
WarnMissing == More /\ IsMethod(NextItem) /\ Incomplete(NextItem) /\ Visit

\* lines 75-168: an operation that is documented
StoreDocs == More /\ IsMethod(NextItem) /\ ~Incomplete(NextItem) /\ Visit

ExtractNext == SkipKey \/ WarnMissing \/ StoreDocs

SpecExtract == ExtractInit /\ [][ExtractNext]_vars

(***************************************************************************)
(* Properties of the extraction.                                           *)
(***************************************************************************)
Visited == SubSeq(Items(openapi_data), 1, cursor)

Documented(item) ==
    /\ item.method \in HTTP_METHODS
    /\ Get(item.operation, "tags", <<>>) # <<>>
    /\ Get(item.operation, "summary", "") # ""

\* C9: of the items visited so far, each operation under an HTTP-method key
\* with tags and a summary has exactly one entry per tag, keyed (tag,
\* upper-cased method, path, summary), all with the same text; an operation
\* with no tags or no summary has no entry and one warning; a key that is no
\* HTTP method has no entry and no warning.
OneEntryPerTag ==
    LET stored == { k \in 1..cursor : Documented(Visited[k]) }
        keysOf(k) == { <<t, upper(Visited[k].method), Visited[k].path,
                         Visited[k].operation.summary>> :
                           t \in Range(Visited[k].operation.tags) }
        warned == { k \in 1..cursor :
                      Visited[k].method \in HTTP_METHODS /\ ~Documented(Visited[k]) }
    IN  /\ { path_docs[e].key : e \in DOMAIN path_docs } = UNION { keysOf(k) : k \in stored }
        /\ \A e, f \in DOMAIN path_docs :
              /\ (e # f => path_docs[e].key # path_docs[f].key)
              /\ (\E k \in stored : {path_docs[e].key, path_docs[f].key} \subseteq keysOf(k))
                     => path_docs[e].docs = path_docs[f].docs
        /\ Len(warnings) = Cardinality(warned)

\* a document visited to its end with an operation of two tags stored, an
\* operation warned about and a key that is no method
OneEntryPerTagWitness ==
    /\ cursor = Len(Items(openapi_data))
    /\ \E k \in 1..cursor :
          Documented(Visited[k]) /\ Cardinality(Range(Visited[k].operation.tags)) = 2
    /\ \E k \in 1..cursor : Visited[k].method \in HTTP_METHODS /\ ~Documented(Visited[k])
    /\ \E k \in 1..cursor : Visited[k].method \notin HTTP_METHODS
    /\ Len(path_docs) >= 2

(***************************************************************************)
(* Injection into one collection file: the file is any concatenation of at *)
(* most MaxPieces pieces, the text any of DocTexts.                        *)
(***************************************************************************)
Pieces ==
    { "meta {" \o NL \o " s" \o NL \o "}",
      "docs {" \o NL \o " A " \o NL \o "}",
      "meta {x{y}}",
      NL,
      "{}",
      "docs " }

RECURSIVE Concat(_)
Concat(ps) == IF ps = <<>> THEN "" ELSE Head(ps) \o Concat(Tail(ps))

FileContents ==
    { Concat(ps) : ps \in UNION { [1..k -> Pieces] : k \in 0..MaxPieces } }

DocTexts == { "B", "p {q}", "docs {z}" }

ExtractIdle ==
    /\ openapi_data = [openapi |-> "3.0.0"]
    /\ cursor = 0
    /\ path_docs = <<>>
    /\ warnings = <<>>

InjectInit ==
    /\ file_now \in FileContents
    /\ doc_text = ""
    /\ file_before = ""
    /\ n_inject = 0
    /\ ExtractIdle
    /\ WorkIdle

\* one operation matched to the file: lines 211-244
Inject(text) ==
    /\ n_inject < MaxInject
    /\ file_before' = file_now
    /\ doc_text' = text
    /\ file_now' = InjectDocs(file_now, text)
    /\ n_inject' = n_inject + 1
    /\ UNCHANGED <<extractVars, workVars>>

InjectNext == \E text \in DocTexts : Inject(text)

SpecInject == InjectInit /\ [][InjectNext]_vars

(***************************************************************************)
(* Properties of the injection.                                            *)
(***************************************************************************)
\* whether  docs\s*{  stands at i: the head of a docs block of any shape
DocsHeaderAt(s, i) ==
    StartsAt(s, i, "docs") /\ StartsAt(s, SkipSpace(s, i + 4), "{")

DocsHeaderCount(s) == Cardinality({ i \in 1..Len(s) : DocsHeaderAt(s, i) })

Occurrences(s, t) == Cardinality({ i \in 1..Len(s) : StartsAt(s, i, t) })

RECURSIVE CloseOf(_, _, _)
\* the index of the brace that closes a block opened before i, or 0
CloseOf(s, i, depth) ==
    IF i > Len(s) THEN 0
    ELSE IF CharAt(s, i) = "{" THEN CloseOf(s, i + 1, depth + 1)
    ELSE IF CharAt(s, i) = "}"
         THEN IF depth = 1 THEN i ELSE CloseOf(s, i + 1, depth - 1)
    ELSE CloseOf(s, i + 1, depth)

MetaHeaderAt(s, i) ==
    StartsAt(s, i, "meta") /\ StartsAt(s, SkipSpace(s, i + 4), "{")

\* the end of the first  meta { ... }  block with balanced braces, or 0
BalancedMetaEnd(s) ==
    LET heads == { i \in 1..Len(s) : MetaHeaderAt(s, i) }
    IN  IF heads = {} THEN 0
        ELSE LET i == CHOOSE h \in heads : \A g \in heads : h <= g
             IN  CloseOf(s, SkipSpace(s, i + 4) + 1, 1)

InsertAfterAnyMeta ==
    LET e == BalancedMetaEnd(file_before)
    IN  (n_inject > 0 /\ DocsHeaderCount(file_before) = 0 /\ e # 0) =>
            file_now = SubSeq(file_before, 1, e)
                         \o NL \o NL \o "docs {" \o NL \o doc_text \o NL \o "}"
                         \o SubSeq(file_before, e + 1, Len(file_before))

\* C4 amended: in a file with no docs block that the docs pattern matches
\* and with a meta block that holds no brace inside its braces (the leftmost
\* match of the meta pattern), the file after the injection of B is the file
\* before it with an empty line and  docs { B }  put in right after the
\* closing brace of that meta block; the characters before and after the
\* insertion point are unchanged.
InsertAfterFlatMeta ==
    LET m == meta_pattern(file_before)
        added == Len(file_now) - Len(file_before)
    IN  (n_inject > 0 /\ docs_pattern(file_before)[1] = 0 /\ m[1] # 0) =>
            /\ SubSeq(file_now, 1, m[2]) = SubSeq(file_before, 1, m[2])
            /\ SubSeq(file_now, m[2] + 1, m[2] + added)
                   = NL \o NL \o "docs {" \o NL \o doc_text \o NL \o "}"
            /\ SubSeq(file_now, m[2] + added + 1, Len(file_now))
                   = SubSeq(file_before, m[2] + 1, Len(file_before))

\* an insertion after a meta block with text before and after it
InsertWitness ==
    LET m == meta_pattern(file_before)
    IN  /\ n_inject = 1
        /\ docs_pattern(file_before)[1] = 0
        /\ m[1] > 1
        /\ m[2] < Len(file_before)
        /\ doc_text = "p {q}"

\* C10: when a docs block is found, only the first occurrence of the matched
\* span is replaced by the merged span: what follows it in the file, a second
\* copy of the span included, is unchanged.
OnlyFirstSpanReplaced ==
    LET m == docs_pattern(file_before)
    IN  (n_inject > 0 /\ m[1] # 0) =>
            LET existing == SubSeq(file_before, m[1], m[2])
            IN  file_now = SubSeq(file_before, 1, m[1] - 1)
                             \o MergedSpan(existing, doc_text)
                             \o SubSeq(file_before, m[2] + 1, Len(file_before))

(***************************************************************************)
(* Sessions: the commands doc and revert on a workspace, main lines        *)
(* 322-399.  A doc command is one step for the extraction and one step for *)
(* each turn of the loop of update_bruno_files.                            *)
(***************************************************************************)
MetaFile == "meta {" \o NL \o "  seq: 1" \o NL \o "}" \o NL \o "get {}"
DocsFile == "meta {}" \o NL \o "docs {" \o NL \o "  old" \o NL \o "}" \o NL

Files(pairs) == [q \in { pr[1] : pr \in pairs } |->
                    (CHOOSE pr \in pairs : pr[1] = q)[2]]

Workspaces ==
    { [bruno_dir |-> "ws", dirs |-> {"ws", "ws/Users"},
       fs |-> Files({ <<"ws/Users/Get User.bru", MetaFile>> })],
      [bruno_dir |-> "api.bruno", dirs |-> {"api.bruno", "api.bruno/Users"},
       fs |-> Files({ <<"api.bruno/Users/Get User.bru", MetaFile>> })],
      [bruno_dir |-> "ws", dirs |-> {"ws", "ws/Users", "ws/Admin"},
       fs |-> Files({ <<"ws/Users/Get User.bru", DocsFile>>,
                      <<"ws/Users/Get Users List.bru", MetaFile>>,
                      <<"ws/Admin/Get User.bru", "get {}">>,
                      <<"ws/Admin/Get User.bak", "stale">>,
                      <<"ws/Admin/Old.bak", "old">> })],
      [bruno_dir |-> "ws", dirs |-> {"ws", "ws/Users"},
       fs |-> Files({ <<"ws/Users/Get User.bak.bru", MetaFile>> })] }

\* GET /users/{id} with its id parameter declared at path level
PathLevelDocument ==
    [openapi |-> "3.0.0",
     paths |-> << <<"/users/{id}",
                    << <<"parameters", <<IdParam>> >>,
                       <<"get", [tags |-> <<"Users">>, summary |-> "Get User",
                                 responses |-> OkResponses]>> >> >> >>]

SessionDocuments ==
    { PathLevelDocument,
      [openapi |-> "3.0.0",
       paths |-> << <<"/users/{id}",
                      << <<"get", [tags |-> <<"Users">>, summary |-> "Get User",
                                   description |-> "one"]>> >> >>,
                    <<"/users",
                      << <<"get", [tags |-> <<"Users">>, summary |-> "Get",
                                   description |-> "all"]>>,
                         <<"post", [tags |-> <<"Pets">>, summary |-> "Add Pet"]>> >> >> >>],
      [openapi |-> "3.0.0",
       paths |-> << <<"/users/{id}",
                      << <<"get", [tags |-> <<"Users", "Admin">>,
                                   summary |-> "Get User!",
                                   parameters |-> <<IdParam>>]>>,
                         <<"delete", [tags |-> <<"Users">>,
                                      summary |-> "Delete User"]>>,
                         <<"put", [summary |-> "x"]>> >> >> >>],
      [openapi |-> "3.0.0",
       paths |-> << <<"/users", << <<"get", [summary |-> "x"]>> >> >> >>] }

\* at most one collection file is closed to reading or to writing
Locks(files) ==
    LET bru == { q \in DOMAIN files : endswith(q, ".bru") }
    IN  { <<{}, {}>> } \cup { <<{q}, {}>> : q \in bru } \cup { <<{}, {q}>> : q \in bru }

Init ==
    /\ openapi_data \in SessionDocuments
    /\ cursor = 0
    /\ path_docs = <<>>
    /\ warnings = <<>>
    /\ \E w \in Workspaces :
          /\ bruno_dir = w.bruno_dir
          /\ dirs = w.dirs
          /\ fs = w.fs
          /\ \E l \in Locks(w.fs) : unreadable = l[1] /\ readonly = l[2]
    /\ pc = "idle"
    /\ log = <<>>
    /\ pre = [q \in {} |-> ""]
    /\ before = [q \in {} |-> ""]
    /\ reverted_count = 0
    /\ history = <<>>
    /\ InjectIdle

MayRun == pc = "idle" /\ Len(history) < MaxRuns

Extracted == extract_openapi_docs(openapi_data)

\* main, lines 359-362: nothing to document
DocNothing ==
    /\ MayRun
    /\ Extracted[1] = <<>>
    /\ cursor' = Len(Items(openapi_data))
    /\ path_docs' = Extracted[1]
    /\ warnings' = Extracted[2]
    /\ history' = Append(history, "doc: no documentation")
    /\ UNCHANGED <<openapi_data, bruno_dir, dirs, fs, unreadable, readonly, pc, log,
                   pre, before, reverted_count, injectVars>>

\* main, lines 359-365, and update_bruno_files up to its loop (the directory
\* of line 176 exists: line 349 has checked it)
DocStart ==
    /\ MayRun
    /\ Extracted[1] # <<>>
    /\ cursor' = Len(Items(openapi_data))
    /\ path_docs' = Extracted[1]
    /\ warnings' = Extracted[2]
    /\ pc' = "doc"
    /\ log' = <<>>
    /\ pre' = fs
    /\ UNCHANGED <<openapi_data, bruno_dir, dirs, fs, unreadable, readonly, before,
                   reverted_count, history, injectVars>>

InLoop == pc = "doc" /\ Len(log) < Len(path_docs)
Entry == path_docs[Len(log) + 1]
tag_dir == path_join(bruno_dir, Entry.key[1])
Matches == matching_files(fs, tag_dir, Entry.key[4])

Logged(outcome, file, backup) ==
    Append(log, [outcome |-> outcome, file |-> file, backup |-> backup])

LoopFrame == UNCHANGED <<extractVars, bruno_dir, dirs, unreadable, readonly, pre,
                         before, reverted_count, injectVars>>

\* lines 183-185
SkipNoTagDir ==
    /\ InLoop
    /\ tag_dir \notin dirs
    /\ log' = Logged("no tag directory", "", "")
    /\ UNCHANGED <<fs, pc, history>>
    /\ LoopFrame

\* lines 198-200
SkipNoMatch ==
    /\ InLoop
    /\ tag_dir \in dirs
    /\ Matches = {}
    /\ log' = Logged("no matching file", "", "")
    /\ UNCHANGED <<fs, pc, history>>
    /\ LoopFrame

\* lines 205-246: backup, read, inject, write
UpdateFile ==
    /\ InLoop
    /\ tag_dir \in dirs
    /\ \E first \in Matches :
          LET bru_file_path == path_join(tag_dir, first)
              backed == WriteFile(fs, backup_path(bru_file_path), fs[bru_file_path])
          IN  /\ CanCopy(fs, dirs, unreadable, readonly, bru_file_path,
                         backup_path(bru_file_path))
              /\ bru_file_path \notin readonly
              /\ fs' = WriteFile(backed, bru_file_path,
                                 InjectDocs(backed[bru_file_path], Entry.docs))
              /\ log' = Logged("updated", bru_file_path, backup_path(bru_file_path))
    /\ UNCHANGED <<pc, history>>
    /\ LoopFrame

\* line 209 raises: no handler in update_bruno_files or in main catches it
BackupRaises ==
    /\ InLoop
    /\ tag_dir \in dirs
    /\ \E first \in Matches :
          LET bru_file_path == path_join(tag_dir, first)
          IN  /\ ~CanCopy(fs, dirs, unreadable, readonly, bru_file_path,
                          backup_path(bru_file_path))
              /\ log' = Logged("raised", bru_file_path, backup_path(bru_file_path))
    /\ pc' = "idle"
    /\ history' = Append(history, "doc: raised")
    /\ UNCHANGED fs
    /\ LoopFrame

\* line 243 raises after the backup is written
WriteRaises ==
    /\ InLoop
    /\ tag_dir \in dirs
    /\ \E first \in Matches :
          LET bru_file_path == path_join(tag_dir, first)
          IN  /\ CanCopy(fs, dirs, unreadable, readonly, bru_file_path,
                         backup_path(bru_file_path))
              /\ bru_file_path \in readonly
              /\ fs' = WriteFile(fs, backup_path(bru_file_path), fs[bru_file_path])
              /\ log' = Logged("raised", bru_file_path, backup_path(bru_file_path))
    /\ pc' = "idle"
    /\ history' = Append(history, "doc: raised")
    /\ LoopFrame

\* the loop ends; main, line 367
DocFinish ==
    /\ pc = "doc"
    /\ Len(log) = Len(path_docs)
    /\ pc' = "idle"
    /\ history' = Append(history, "doc")
    /\ UNCHANGED <<fs, log>>
    /\ LoopFrame

\* main, lines 394-399
Revert ==
    /\ MayRun
    /\ before' = fs
    /\ fs' = revert_bruno_files(fs, dirs, unreadable, readonly, bruno_dir)[1]
    /\ reverted_count' = revert_bruno_files(fs, dirs, unreadable, readonly, bruno_dir)[2]
    /\ history' = Append(history, "revert")
    /\ UNCHANGED <<extractVars, bruno_dir, dirs, unreadable, readonly, pc, log, pre,
                   injectVars>>

Next ==
    \/ DocNothing
    \/ DocStart
    \/ SkipNoTagDir
    \/ SkipNoMatch
    \/ UpdateFile
    \/ BackupRaises
    \/ WriteRaises
    \/ DocFinish
    \/ Revert

Spec == Init /\ [][Next]_vars

(***************************************************************************)
(* Properties of the sessions.                                             *)
(***************************************************************************)
\* no command is running and  command  is the last that ended
Ended(command) ==
    pc = "idle" /\ history # <<>> /\ history[Len(history)] = command

\* the collection files the last doc command wrote, one for each write
Writes == SelectSeq(log, LAMBDA r : r.outcome = "updated")
Patched == { Writes[k].file : k \in DOMAIN Writes }
WritesTo(file) == Cardinality({ k \in DOMAIN Writes : Writes[k].file = file })

\* C1: when a doc command ends, each collection file it patched has a backup
\* file that holds the content the collection file had before the command,
\* however many operations were matched to the file.
BackupHoldsPreRunContent ==
    Ended("doc") =>
        \A k \in DOMAIN Writes :
            /\ Writes[k].backup \in DOMAIN fs
            /\ fs[Writes[k].backup] = pre[Writes[k].file]

\* C2: after a doc command in which each patched file was matched by one
\* operation only, followed by a revert command, each patched file holds the
\* content it had before the doc command.
DocThenRevertRestores ==
    (/\ Ended("revert")
     /\ Len(history) >= 2
     /\ history[Len(history) - 1] = "doc"
     /\ \A f \in Patched : WritesTo(f) = 1)
        => \A f \in Patched : fs[f] = pre[f]

\* C5: with GET /users/{id} tagged Users, summary Get User, its id parameter
\* declared at path level and a response 200 OK, a doc command on a workspace
\* that holds Users/Get User.bru with a meta block leaves in that file a docs
\* block, after the meta block, with the Parameters section of id.
PathLevelParameterDocumented ==
    LET f == "ws/Users/Get User.bru"
    IN  (/\ openapi_data = PathLevelDocument
         /\ Ended("doc")
         /\ history = <<"doc">>
         /\ f \in DOMAIN pre
         /\ pre[f] = MetaFile)
            => LET m == meta_pattern(fs[f])
               IN  /\ m[1] # 0
                   /\ StartsAt(fs[f], m[2] + 1, NL \o NL \o "docs {")
                   /\ contains(fs[f],
                               "Parameters:" \o NL
                                 \o "  * id (path, required): User ID" \o NL \o NL
                                 \o "    Example: 123")

\* C6: a failure of the matching or of the injection for one operation ends
\* the work on that operation only: when the doc command ends, the loop has
\* dealt with every entry of path_docs.
EveryEntryProcessed ==
    (Ended("doc") \/ Ended("doc: raised")) => Len(log) = Len(path_docs)

\* C7: the backup of a matched collection file is the path of the file with
\* its final extension .bru swapped for .bak, in the same directory.
BackupSwapsFinalExtension ==
    \A k \in DOMAIN log :
        log[k].file # "" =>
            /\ dirname(log[k].backup) = dirname(log[k].file)
            /\ log[k].backup = SubSeq(log[k].file, 1, Len(log[k].file) - 4) \o ".bak"

\* C8: after a revert command, a second revert command would change no file,
\* and the revert command has deleted no file and changed no backup file.
RevertIdempotent ==
    Ended("revert") =>
        /\ revert_bruno_files(fs, dirs, unreadable, readonly, bruno_dir)[1] = fs
        /\ DOMAIN fs = DOMAIN before
        /\ \A q \in DOMAIN before : endswith(q, ".bak") => fs[q] = before[q]

\* two revert commands in a row after a doc command that patched a file, the
\* file restored
RevertTwiceWitness ==
    /\ Ended("revert")
    /\ history = <<"doc", "revert", "revert">>
    /\ \E f \in Patched : fs[f] = pre[f] /\ before[f] = pre[f]
    /\ reverted_count > 0

====
